---- MODULE Spec2Model ----
(***************************************************************************)
(* A model of DatabaseManager (src/src/database.py): the SQLite store of   *)
(* projects, tasks, tags and task/tag associations, its operations run one *)
(* at a time (Spec, SpecTags, SpecQuery, SpecStats, SpecFrame,             *)
(* SpecDropped) and run as coroutines that interleave at every await       *)
(* (SpecConc).                                                             *)
(***************************************************************************)
EXTENDS Integers, Sequences, FiniteSets, Bags, TLC

\* ---------------------------------------------------------------- values
\* SQL NULL / Python None in an integer column (project_id, due_date).
\* Due dates are ISO calendar strings of fixed width, whose text order is
\* the order of the day numbers 1, 2, ... that stand for them here.
NULL == 0
\* A keyword argument the caller does not pass.
OMIT == "OMIT"

\* ---------------------------------------------------------------- bounds
MaxTasks == 2       \* rows ever inserted into tasks
MaxProjects == 1    \* rows ever inserted into projects
MaxCalls == 3       \* operations started in the coroutine model

TagNames == {"x", "y"}
TaskIds == 1..MaxTasks
ProjectIds == 1..MaxProjects
Procs == {1, 2}

VARIABLES
    projects,    \* table projects: set of rows
    tasks,       \* table tasks: set of rows
    tags,        \* table tags: set of rows [id, name]
    task_tags,   \* table task_tags: bag of <<task_id, tag_id>>
    seq,         \* last rowid handed out per table
    connection,  \* self.connection: FALSE is None
    opened,      \* connections opened so far (runs of initialize's body)
    now,         \* the storage engine's clock, in seconds
    last,        \* the last finished call: [op, args, res]
    streak,      \* consecutive identical add_tag calls, see Return
    pc,          \* per coroutine: the statement it is suspended before
    loc,         \* per coroutine: its call, arguments and local variables
    calls        \* calls the coroutines have started

db == <<projects, tasks, tags, task_tags, seq>>
conc == <<pc, loc, calls>>
vars == <<projects, tasks, tags, task_tags, seq, connection, opened, now,
          last, streak, pc, loc, calls>>

\* ------------------------------------------------------- results of calls
Raised == [kind |-> "raised"]            \* the exception leaves the method
None == [kind |-> "none"]                \* return None
EmptyDict == [kind |-> "dict"]           \* return {}
Bool(b) == [kind |-> "bool", val |-> b]
List(s) == [kind |-> "list", rows |-> s]
ProjectDict(r) == [kind |-> "project", row |-> r]
TaskDict(r, tg) == [kind |-> "task", row |-> r, tags |-> tg]

\* ----------------------------------------------------------------- schema
\* PRAGMA foreign_keys of the connection. SQLite leaves it off unless a
\* connection turns it on, and initialize does not: a reference to a row
\* that does not exist is stored, and a delete does not cascade.
foreign_keys == FALSE
\* task_tags: PRIMARY KEY (task_id, tag_id).
PairIsKey == TRUE
\* tags: name UNIQUE.
TagNameIsUnique == TRUE

\* ------------------------------------------------------------- statements
\* cursor.lastrowid of an INSERT into a table whose last rowid was n.
lastrowid(n) == n + 1

\* _row_to_dict of the row SELECT * FROM projects WHERE id = ? fetches.
SelectProject(P, id) ==
    IF \E r \in P : r.id = id
    THEN ProjectDict(CHOOSE r \in P : r.id = id)
    ELSE None

\* The value of CURRENT_TIMESTAMP in a statement run now.
CURRENT_TIMESTAMP == now

\* created_at, updated_at: the columns the INSERT statements leave to their
\* defaults.
DefaultTimestamp == CURRENT_TIMESTAMP

InsertProject(P, id, name, description) ==
    P \cup {[id |-> id, name |-> name, description |-> description,
             created_at |-> DefaultTimestamp, updated_at |-> DefaultTimestamp]}

InsertTask(T, id, title, description, priority, status, project_id, due_date) ==
    T \cup {[id |-> id, title |-> title, description |-> description,
             priority |-> priority, status |-> status,
             project_id |-> project_id, due_date |-> due_date,
             created_at |-> DefaultTimestamp, updated_at |-> DefaultTimestamp]}

\* SELECT t.id, t.name FROM tags t JOIN task_tags tt ON t.id = tt.tag_id
\* WHERE tt.task_id = ?: one row per association row, as a bag of tag rows.
SelectTags(G, TT, task_id) ==
    [g \in {h \in G : CopiesIn(<<task_id, h.id>>, TT) > 0}
        |-> CopiesIn(<<task_id, g.id>>, TT)]

\* The body of get_task: the row, then its tags.
SelectTask(T, G, TT, task_id) ==
    IF \E r \in T : r.id = task_id
    THEN TaskDict(CHOOSE r \in T : r.id = task_id, SelectTags(G, TT, task_id))
    ELSE None

\* The same UPDATE without its WHERE clause.
UpdateEveryRow(R, id, fields) ==
    {[f \in DOMAIN r |->
         IF f \in DOMAIN fields THEN fields[f]
         ELSE IF f = "updated_at" THEN CURRENT_TIMESTAMP
         ELSE r[f]] : r \in R}

\* UPDATE <table> SET k = ? ..., updated_at = CURRENT_TIMESTAMP
\* WHERE id = ?, for the fields kept.
UpdateRows(R, id, fields) ==
    {IF r.id = id
     THEN [f \in DOMAIN r |->
              IF f \in DOMAIN fields THEN fields[f]
              ELSE IF f = "updated_at" THEN CURRENT_TIMESTAMP
              ELSE r[f]]
     ELSE r : r \in R}

\* {k: v for k, v in kwargs.items() if k in allowed_fields}
AllowedFields(kwargs, allowed) ==
    [k \in DOMAIN kwargs \cap allowed |-> kwargs[k]]

DeleteRow(R, id) == {r \in R : r.id # id}

\* The association rows left by DELETE FROM tasks WHERE id = ?: all of
\* them, unless foreign keys are enforced and the delete cascades.
AfterTaskDelete(TT, id) ==
    IF foreign_keys THEN [p \in {q \in DOMAIN TT : q[1] # id} |-> TT[p]] ELSE TT

\* Whether INSERT INTO task_tags fails on its reference to tasks.
BadReference(T, task_id) ==
    foreign_keys /\ ~\E r \in T : r.id = task_id

\* SELECT id FROM tags WHERE name = ?
SelectTagByName(G, name) == {g \in G : g.name = name}

\* A plain INSERT INTO task_tags, which adds a row whatever the table holds.
InsertAlways(TT, task_id, tag_id) == TT (+) SetToBag({<<task_id, tag_id>>})

\* INSERT OR IGNORE INTO task_tags: the pair is the table's key, a second
\* insert of it is ignored.
InsertOrIgnore(TT, task_id, tag_id) ==
    IF PairIsKey /\ BagIn(<<task_id, tag_id>>, TT)
    THEN TT
    ELSE TT (+) SetToBag({<<task_id, tag_id>>})

\* The same DELETE with WHERE tag_id = ? alone.
DeleteAssocOfTag(TT, task_id, tag_id) ==
    [p \in {q \in DOMAIN TT : q[2] # tag_id} |-> TT[p]]

\* DELETE FROM task_tags WHERE task_id = ? AND tag_id = ?
DeleteAssoc(TT, task_id, tag_id) ==
    [p \in DOMAIN TT \ {<<task_id, tag_id>>} |-> TT[p]]

\* A Python default argument.
Default(arg, dflt) == IF arg = OMIT THEN dflt ELSE arg

\* ------------------------------------------------ connection, bookkeeping
\* _get_connection, when nothing else runs: initialize on first use.
Connect ==
    /\ connection' = TRUE
    /\ opened' = IF connection THEN opened ELSE opened + 1

\* The call returns (or raises) res. streak counts, up to 2, how many times
\* in a row the same add_tag call has now been made without a fault; it is
\* 0 after any other call.
Return(op, fault, args, res) ==
    LET again == last.op = op /\ ~last.fault /\ last.args = args
    IN  /\ last' = [op |-> op, fault |-> fault, args |-> args, res |-> res]
        /\ streak' = IF op # "add_tag" \/ fault THEN 0
                      ELSE IF ~again THEN 1
                      ELSE IF streak < 2 THEN streak + 1 ELSE streak

\* A second passes on the engine's clock.
Times == {1, 2}
tick ==
    /\ now + 1 \in Times
    /\ now' = now + 1
    /\ UNCHANGED <<db, connection, opened, last, streak, conc>>

\* The locals of a coroutine that runs no call. existed is no local: it
\* records whether the task an add_tag names was stored when it was called.
IdleLoc == [op |-> "none", args |-> <<>>, id |-> NULL, created |-> FALSE,
            row |-> None, existed |-> FALSE]

Init ==
    /\ projects = {}
    /\ tasks = {}
    /\ tags = {}
    /\ task_tags = EmptyBag
    /\ seq = [projects |-> 0, tasks |-> 0, tags |-> 0]
    /\ connection = FALSE
    /\ opened = 0
    /\ now = 1
    /\ last = [op |-> "__init__", fault |-> FALSE, args |-> <<>>, res |-> None]
    /\ streak = 0
    /\ pc = [p \in Procs |-> "idle"]
    /\ loc = [p \in Procs |-> IdleLoc]
    /\ calls = 0

\* ------------------------------------------------------------- ordering
RECURSIVE Perms(_)
Perms(S) ==
    IF S = {} THEN {<<>>}
    ELSE UNION {{<<x>> \o p : p \in Perms(S \ {x})} : x \in S}

\* An ascending order that puts NULL after every other value.
DueLeqNullsLast(a, b) ==
    IF b = NULL THEN TRUE ELSE IF a = NULL THEN FALSE ELSE a <= b

\* SQLite sorts NULL before every other value in ascending order.
DueLeq(a, b) == IF a = NULL THEN TRUE ELSE IF b = NULL THEN FALSE ELSE a <= b

\* The value of the SQL expression priority = 'high'.
IsHigh(r) == IF r.priority = "high" THEN 1 ELSE 0

\* ORDER BY priority = 'high' DESC, due_date ASC
TaskOrder(a, b) ==
    \/ IsHigh(a) > IsHigh(b)
    \/ IsHigh(a) = IsHigh(b) /\ DueLeq(a.due_date, b.due_date)

\* ORDER BY due_date ASC
DueOrder(a, b) == DueLeq(a.due_date, b.due_date)

\* ORDER BY name, over the names the model uses.
Alphabet == <<"p", "q", "x", "y">>
NameRank(n) == CHOOSE i \in 1..Len(Alphabet) : Alphabet[i] = n
NameOrder(a, b) == NameRank(a.name) <= NameRank(b.name)

\* ORDER BY rank: the full-text engine's relevance, which the rows of the
\* model do not determine.
AnyOrder(a, b) == TRUE

\* The ORDER BY clauses of the queries, by name.
Ordered(order, a, b) ==
    CASE order = "priority = 'high' DESC, due_date ASC" -> TaskOrder(a, b)
      [] order = "due_date ASC" -> DueOrder(a, b)
      [] order = "name" -> NameOrder(a, b)
      [] order = "rank" -> AnyOrder(a, b)

\* Every order a query with this ORDER BY may return the rows in: rows
\* that compare equal come in any order.
OrderBy(S, order) ==
    {s \in Perms(S) : \A i \in 1..(Len(s) - 1) : Ordered(order, s[i], s[i + 1])}

\* LIMIT ? OFFSET ?
Page(s, limit, offset) ==
    SubSeq(s, offset + 1, IF offset + limit < Len(s) THEN offset + limit ELSE Len(s))

\* The loop that gives every fetched row its tags.
WithTags(s, G, TT) ==
    [i \in 1..Len(s) |-> TaskDict(s[i], SelectTags(G, TT, s[i].id))]

\* --------------------------------------------------------------- filters
Recognized == {"status", "priority", "project_id"}

\* The predicates joined by OR instead of AND.
MatchesAny(r, filters, keys) ==
    \/ keys = {}
    \/ \E k \in keys :
          IF k = "project_id"
          THEN filters[k] # NULL /\ r[k] = filters[k]
          ELSE r[k] = filters[k]

\* k = ? for every k of keys; a NULL parameter equals nothing.
Matches(r, filters, keys) ==
    \A k \in keys :
        IF k = "project_id"
        THEN filters[k] # NULL /\ r[k] = filters[k]
        ELSE r[k] = filters[k]

\* The rows the query built by filter_tasks selects, or the failure of the
\* statement: with tag_name the WHERE clause is rebuilt from every other
\* key of filters, the parameters from the recognized ones only.
FilterRows(T, G, TT, filters) ==
    LET keys == DOMAIN filters
        others == keys \ {"tag_name"}
    IN  IF "tag_name" \notin keys
        THEN [ok |-> TRUE,
              rows |-> {r \in T : Matches(r, filters, keys \cap Recognized)}]
        ELSE IF others = {}
        THEN [ok |-> FALSE, rows |-> {}]   \* "... AND  ORDER BY": syntax error
        ELSE IF ~(others \subseteq Recognized)
        THEN [ok |-> FALSE, rows |-> {}]   \* more placeholders than parameters
        ELSE [ok |-> TRUE,
              rows |-> {r \in T :
                          /\ \E g \in G : /\ g.name = filters.tag_name
                                          /\ BagIn(<<r.id, g.id>>, TT)
                          /\ Matches(r, filters, others)}]

\* WHERE tasks_fts MATCH ?, over titles and descriptions of one word.
FtsMatch(r, query) == r.title = query \/ r.description = query

\* ------------------------------------------- operations, one at a time
\* Each action is one call of a DatabaseManager method run to completion.
\* fault: the storage engine fails the call's first statement.

create_project(name, description, fault) ==
    LET args == [name |-> name, description |-> description]
        id == lastrowid(seq.projects)
        P == InsertProject(projects, id, name, Default(description, ""))
        row == SelectProject(P, id)
    IN  /\ seq.projects < MaxProjects
        /\ Connect
        /\ IF fault
           THEN UNCHANGED db /\ Return("create_project", fault, args, Raised)
           ELSE /\ projects' = P
                /\ seq' = [seq EXCEPT !.projects = id]
                /\ UNCHANGED <<tasks, tags, task_tags>>
                /\ Return("create_project", fault, args,
                          IF row = None THEN EmptyDict ELSE row)
        /\ UNCHANGED <<conc, now>>

get_project(project_id, fault) ==
    /\ Connect
    /\ UNCHANGED <<db, conc, now>>
    /\ Return("get_project", fault, [id |-> project_id],
              IF fault THEN None ELSE SelectProject(projects, project_id))

list_projects(fault) ==
    /\ Connect
    /\ UNCHANGED <<db, conc, now>>
    /\ \E s \in OrderBy(projects, "name") :
          Return("list_projects", fault, <<>>,
                 IF fault THEN List(<<>>)
                 ELSE List([i \in 1..Len(s) |-> ProjectDict(s[i])]))

update_project(project_id, kwargs, fault) ==
    LET args == [id |-> project_id, kwargs |-> kwargs]
        update_fields == AllowedFields(kwargs, {"name", "description"})
        P == IF fault \/ DOMAIN update_fields = {}
             THEN projects
             ELSE UpdateRows(projects, project_id, update_fields)
    IN  /\ Connect
        /\ projects' = P
        /\ UNCHANGED <<tasks, tags, task_tags, seq, conc, now>>
        /\ Return("update_project", fault, args,
                  IF fault THEN None ELSE SelectProject(P, project_id))

\* delete_project over a store that deletes the tasks of a deleted project.
delete_project_cascading(project_id, fault) ==
    /\ Connect
    /\ projects' = IF fault THEN projects ELSE DeleteRow(projects, project_id)
    /\ tasks' = IF fault THEN tasks
                 ELSE {r \in tasks : r.project_id # project_id}
    /\ UNCHANGED <<tags, task_tags, seq, conc, now>>
    /\ Return("delete_project", fault, [id |-> project_id], Bool(~fault))

delete_project(project_id, fault) ==
    /\ Connect
    /\ projects' = IF fault THEN projects ELSE DeleteRow(projects, project_id)
    /\ UNCHANGED <<tasks, tags, task_tags, seq, conc, now>>
    /\ Return("delete_project", fault, [id |-> project_id], Bool(~fault))

create_task(title, description, priority, status, project_id, due_date, fault) ==
    LET args == [title |-> title, description |-> description,
                 priority |-> priority, status |-> status,
                 project_id |-> project_id, due_date |-> due_date]
        id == lastrowid(seq.tasks)
        T == InsertTask(tasks, id, title, Default(description, ""),
                        Default(priority, "medium"), Default(status, "pending"),
                        project_id, due_date)
    IN  /\ seq.tasks < MaxTasks
        /\ Connect
        /\ IF fault
           THEN UNCHANGED db /\ Return("create_task", fault, args, Raised)
           ELSE /\ tasks' = T
                /\ seq' = [seq EXCEPT !.tasks = id]
                /\ UNCHANGED <<projects, tags, task_tags>>
                /\ Return("create_task", fault, args, SelectTask(T, tags, task_tags, id))
        /\ UNCHANGED <<conc, now>>

\* get_task with an except clause that re-raises, as create_task's does.
get_task_reraising(task_id, fault) ==
    /\ Connect
    /\ UNCHANGED <<db, conc, now>>
    /\ Return("get_task", fault, [id |-> task_id],
              IF fault THEN Raised ELSE SelectTask(tasks, tags, task_tags, task_id))

get_task(task_id, fault) ==
    /\ Connect
    /\ UNCHANGED <<db, conc, now>>
    /\ Return("get_task", fault, [id |-> task_id],
              IF fault THEN None ELSE SelectTask(tasks, tags, task_tags, task_id))

list_tasks(limit, offset, fault) ==
    /\ Connect
    /\ UNCHANGED <<db, conc, now>>
    /\ \E s \in OrderBy(tasks, "priority = 'high' DESC, due_date ASC") :
          Return("list_tasks", fault, [limit |-> limit, offset |-> offset],
                 IF fault THEN List(<<>>)
                 ELSE List(WithTags(Page(s, limit, offset), tags, task_tags)))

update_task(task_id, kwargs, fault) ==
    LET args == [id |-> task_id, kwargs |-> kwargs]
        update_fields ==
            AllowedFields(kwargs, {"title", "description", "status",
                                   "priority", "due_date"})
        T == IF fault \/ DOMAIN update_fields = {}
             THEN tasks
             ELSE UpdateRows(tasks, task_id, update_fields)
    IN  /\ Connect
        /\ tasks' = T
        /\ UNCHANGED <<projects, tags, task_tags, seq, conc, now>>
        /\ Return("update_task", fault, args,
                  IF fault THEN None ELSE SelectTask(T, tags, task_tags, task_id))

delete_task(task_id, fault) ==
    /\ Connect
    /\ tasks' = IF fault THEN tasks ELSE DeleteRow(tasks, task_id)
    /\ task_tags' = IF fault THEN task_tags ELSE AfterTaskDelete(task_tags, task_id)
    /\ UNCHANGED <<projects, tags, seq, conc, now>>
    /\ Return("delete_task", fault, [id |-> task_id], Bool(~fault))

\* INSERT INTO tags (name) VALUES (?), with the rowid it is given.
InsertTag(G, id, name) == G \cup {[id |-> id, name |-> name]}

add_tag(task_id, tag_name, fault) ==
    LET args == [id |-> task_id, name |-> tag_name]
        tag == SelectTagByName(tags, tag_name)
        tag_id == IF tag = {} THEN lastrowid(seq.tags)
                  ELSE (CHOOSE g \in tag : TRUE).id
        bad == BadReference(tasks, task_id)
    IN  /\ Connect
        /\ IF fault
           THEN UNCHANGED db /\ Return("add_tag", fault, args, Bool(FALSE))
           ELSE /\ tags' = IF tag = {} THEN InsertTag(tags, tag_id, tag_name)
                           ELSE tags
                /\ seq' = IF tag = {} THEN [seq EXCEPT !.tags = tag_id] ELSE seq
                /\ task_tags' = IF bad THEN task_tags
                                ELSE InsertOrIgnore(task_tags, task_id, tag_id)
                /\ UNCHANGED <<projects, tasks>>
                /\ Return("add_tag", fault, args, Bool(~bad))
        /\ UNCHANGED <<conc, now>>

remove_tag(task_id, tag_name, fault) ==
    LET args == [id |-> task_id, name |-> tag_name]
        tag == SelectTagByName(tags, tag_name)
    IN  /\ Connect
        /\ IF fault \/ tag = {}
           THEN UNCHANGED db /\ Return("remove_tag", fault, args, Bool(FALSE))
           ELSE /\ task_tags' = DeleteAssoc(task_tags, task_id,
                                            (CHOOSE g \in tag : TRUE).id)
                /\ UNCHANGED <<projects, tasks, tags, seq>>
                /\ Return("remove_tag", fault, args, Bool(TRUE))
        /\ UNCHANGED <<conc, now>>

list_tags(fault) ==
    /\ Connect
    /\ UNCHANGED <<db, conc, now>>
    /\ \E s \in OrderBy(tags, "name") :
          Return("list_tags", fault, <<>>, IF fault THEN List(<<>>) ELSE List(s))

search_tasks(query, fault) ==
    /\ Connect
    /\ UNCHANGED <<db, conc, now>>
    /\ \E s \in OrderBy({r \in tasks : FtsMatch(r, query)}, "rank") :
          Return("search_tasks", fault, [query |-> query],
                 IF fault THEN List(<<>>)
                 ELSE List(WithTags(s, tags, task_tags)))

filter_tasks(filters, fault) ==
    LET q == FilterRows(tasks, tags, task_tags, filters)
    IN  /\ Connect
        /\ UNCHANGED <<db, conc, now>>
        /\ \E s \in OrderBy(q.rows, "priority = 'high' DESC, due_date ASC") :
              Return("filter_tasks", fault, filters,
                     IF fault \/ ~q.ok THEN List(<<>>)
                     ELSE List(WithTags(s, tags, task_tags)))

\* A dict whose in_progress is a count of its own, of the tasks with that
\* status.
StatisticsCounted(T) ==
    LET total == Cardinality(T)
        completed == Cardinality({r \in T : r.status = "completed"})
    IN  [kind |-> "stats",
         total |-> total,
         completed |-> completed,
         pending |-> Cardinality({r \in T : r.status = "pending"}),
         in_progress |-> Cardinality({r \in T : r.status = "in_progress"}),
         high_priority |-> Cardinality({r \in T : r.priority = "high"}),
         completion_rate |-> IF total > 0
                             THEN [num |-> completed * 100, den |-> total]
                             ELSE [num |-> 0, den |-> 1]]

\* The dict get_task_statistics builds from its four COUNT(*) queries;
\* completion_rate is the fraction num/den, in percent.
Statistics(T) ==
    LET total == Cardinality(T)
        completed == Cardinality({r \in T : r.status = "completed"})
        pending == Cardinality({r \in T : r.status = "pending"})
    IN  [kind |-> "stats",
         total |-> total,
         completed |-> completed,
         pending |-> pending,
         in_progress |-> total - completed - pending,
         high_priority |-> Cardinality({r \in T : r.priority = "high"}),
         completion_rate |-> IF total > 0
                             THEN [num |-> completed * 100, den |-> total]
                             ELSE [num |-> 0, den |-> 1]]

get_task_statistics(fault) ==
    /\ Connect
    /\ UNCHANGED <<db, conc, now>>
    /\ Return("get_task_statistics", fault, <<>>,
              IF fault THEN EmptyDict ELSE Statistics(tasks))

\* The same with due_date <= date('now').
OverdueOrToday(T, today) ==
    {r \in T : r.due_date # NULL /\ r.due_date <= today /\ r.status # "completed"}

\* WHERE due_date < date('now') AND status != 'completed'; a NULL due date
\* is not less than anything.
Overdue(T, today) ==
    {r \in T : r.due_date # NULL /\ r.due_date < today /\ r.status # "completed"}

get_overdue_tasks(today, fault) ==
    /\ Connect
    /\ UNCHANGED <<db, conc, now>>
    /\ \E s \in OrderBy(Overdue(tasks, today), "due_date ASC") :
          Return("get_overdue_tasks", fault, [today |-> today],
                 IF fault THEN List(<<>>)
                 ELSE List(WithTags(s, tags, task_tags)))

get_project_tasks(project_id, fault) ==
    /\ Connect
    /\ UNCHANGED <<db, conc, now>>
    /\ \E s \in OrderBy({r \in tasks : project_id # NULL
                                       /\ r.project_id = project_id}, "priority = 'high' DESC, due_date ASC") :
          Return("get_project_tasks", fault, [id |-> project_id],
                 IF fault THEN List(<<>>)
                 ELSE List(WithTags(s, tags, task_tags)))

\* ----------------------------------------------------------------- Spec
\* Every operation, one call at a time, with and without a storage fault.
ProjectKwargs == {[name |-> "q"], [colour |-> "red"]}
TaskKwargs == {[status |-> "completed"], [colour |-> "red"]}
SomeFilters == {[status |-> "pending"], [tag_name |-> "x"]}

\* The ids the calls of Spec name; rows with other ids are only created.
Named == {1}

Next ==
    \/ \E f \in BOOLEAN : create_project("p", OMIT, f)
    \/ \E id \in Named, f \in BOOLEAN : get_project(id, f)
    \/ \E f \in BOOLEAN : list_projects(f)
    \/ \E id \in Named, kw \in ProjectKwargs, f \in BOOLEAN :
          update_project(id, kw, f)
    \/ \E id \in Named, f \in BOOLEAN : delete_project(id, f)
    \/ \E pr \in {OMIT, "high"}, f \in BOOLEAN :
          create_task("a", OMIT, pr, OMIT, NULL, NULL, f)
    \/ \E id \in Named, f \in BOOLEAN : get_task(id, f)
    \/ \E f \in BOOLEAN : list_tasks(100, 0, f)
    \/ \E id \in Named, kw \in TaskKwargs, f \in BOOLEAN :
          update_task(id, kw, f)
    \/ \E id \in Named, f \in BOOLEAN : delete_task(id, f)
    \/ \E id \in Named, f \in BOOLEAN : add_tag(id, "x", f)
    \/ \E id \in Named, f \in BOOLEAN : remove_tag(id, "x", f)
    \/ \E f \in BOOLEAN : list_tags(f)
    \/ \E f \in BOOLEAN : search_tasks("a", f)
    \/ \E fl \in SomeFilters, f \in BOOLEAN : filter_tasks(fl, f)
    \/ \E f \in BOOLEAN : get_task_statistics(f)
    \/ \E f \in BOOLEAN : get_overdue_tasks(1, f)
    \/ \E id \in Named, f \in BOOLEAN : get_project_tasks(id, f)

Spec == Init /\ [][Next]_vars

\* ------------------------------------------------------ properties of Spec
MissingTask(id) == ~\E r \in tasks : r.id = id
MissingProject(id) == ~\E r \in projects : r.id = id

\* C6: a get or update of an id that is not in the store returns None, a
\* delete of it returns False, and the store is left as it was.
C6_NotFound ==
    [][/\ (last'.op \in {"get_task", "update_task"} /\ MissingTask(last'.args.id))
            => (last'.res = None /\ db' = db)
       /\ (last'.op \in {"get_project", "update_project"}
              /\ MissingProject(last'.args.id))
            => (last'.res = None /\ db' = db)
       /\ (last'.op = "delete_task" /\ MissingTask(last'.args.id))
            => (last'.res = Bool(FALSE) /\ db' = db)
       /\ (last'.op = "delete_project" /\ MissingProject(last'.args.id))
            => (last'.res = Bool(FALSE) /\ db' = db)]_vars

Creates == {"create_project", "create_task"}

Titles == {"a", "b"}

NextTags ==
    \/ \E t \in Titles, pr \in {OMIT, "high"} :
          create_task(t, OMIT, pr, OMIT, NULL, NULL, FALSE)
    \/ \E id \in TaskIds : get_task(id, FALSE)
    \/ \E id \in TaskIds : delete_task(id, FALSE)
    \/ \E id \in TaskIds, n \in TagNames : add_tag(id, n, FALSE)
    \/ \E id \in TaskIds, n \in TagNames : remove_tag(id, n, FALSE)

SpecTags == Init /\ [][NextTags]_vars

\* How many rows of task_tags join task t to a tag named n.
AssocCount(t, n) ==
    LET ids == {g.id : g \in SelectTagByName(tags, n)}
        RECURSIVE Sum(_)
        Sum(S) == IF S = {} THEN 0
                  ELSE LET i == CHOOSE j \in S : TRUE
                       IN  CopiesIn(<<t, i>>, task_tags) + Sum(S \ {i})
    IN  Sum(ids)

\* How many times the tag list of a task dict names n.
Listed(dict, n) ==
    LET RECURSIVE Sum(_)
        Sum(S) == IF S = {} THEN 0
                  ELSE LET g == CHOOSE h \in S : TRUE
                       IN  dict.tags[g] + Sum(S \ {g})
    IN  Sum({g \in DOMAIN dict.tags : g.name = n})

\* C1: get_task on the id create_task returned gives a record whose fields
\* are the inputs (priority medium and status pending when omitted) and
\* whose tag list is empty, whatever calls came before.
C1_CreateThenGet ==
    (last.op = "create_task" /\ last.res # Raised) =>
        /\ last.res.kind = "task"
        /\ LET a == last.args
               got == SelectTask(tasks, tags, task_tags, last.res.row.id)
           IN  /\ got.kind = "task"
               /\ got.row.title = a.title
               /\ got.row.description = (IF a.description = OMIT THEN "" ELSE a.description)
               /\ got.row.priority = (IF a.priority = OMIT THEN "medium" ELSE a.priority)
               /\ got.row.status = (IF a.status = OMIT THEN "pending" ELSE a.status)
               /\ got.row.project_id = a.project_id
               /\ got.row.due_date = a.due_date
               /\ got.tags = EmptyBag

\* C2: after add_tag(t, x) on an existing task t, called once, twice or more
\* in a row, there is one (t, x) association and one tag named x, the call
\* returned True, and get_task(t) lists x once.
C2_Idempotent ==
    (last.op = "add_tag" /\ ~MissingTask(last.args.id)) =>
        /\ last.res = Bool(TRUE)
        /\ AssocCount(last.args.id, last.args.name) = 1
        /\ Cardinality(SelectTagByName(tags, last.args.name)) = 1
        /\ Listed(SelectTask(tasks, tags, task_tags, last.args.id),
                  last.args.name) = 1

C2_Witness ==
    /\ last.op = "add_tag"
    /\ streak = 2
    /\ ~MissingTask(last.args.id)
    /\ last.res = Bool(TRUE)
    /\ BagCardinality(task_tags) > 1

\* ------------------------------------------------------------ SpecQuery
\* The read paths over stores of tasks that differ in priority, status and
\* due date, some of them tagged.
DueDates == {NULL, 1, 2}
DefaultLimit == 100
Pages == {<<DefaultLimit, 0>>, <<1, 1>>}
Filters ==
    {<<>>, [tag_name |-> "x"]}
    \cup {[status |-> st] : st \in {"pending", "completed"}}
    \cup {[priority |-> pr] : pr \in {"medium", "high"}}
    \cup {[status |-> st, priority |-> pr] :
            st \in {"pending", "completed"}, pr \in {"medium", "high"}}
    \cup {[tag_name |-> "x", status |-> st] : st \in {"pending", "completed"}}
    \cup {[tag_name |-> "x", status |-> "pending", priority |-> "high"]}

NextQuery ==
    \/ \E pr \in {OMIT, "high"}, st \in {OMIT, "completed"}, d \in DueDates :
          create_task("a", OMIT, pr, st, NULL, d, FALSE)
    \/ \E id \in TaskIds : add_tag(id, "x", FALSE)
    \/ \E pg \in Pages : list_tasks(pg[1], pg[2], FALSE)
    \/ \E fl \in Filters : filter_tasks(fl, FALSE)

SpecQuery == Init /\ [][NextQuery]_vars

\* The task rows of a returned list, in order.
RowAt(i) == last.res.rows[i].row
Returned == {RowAt(i) : i \in 1..Len(last.res.rows)}

\* C3 as stated: list_tasks puts every high-priority task before every
\* other task, and within each of the two tiers the due dates do not
\* decrease, tasks without a due date coming last.
C3_HighFirstNullsLast ==
    last.op = "list_tasks" =>
        \A i, j \in 1..Len(last.res.rows) :
            i < j =>
                /\ RowAt(j).priority = "high" => RowAt(i).priority = "high"
                /\ (RowAt(i).priority = "high") = (RowAt(j).priority = "high")
                      => \/ RowAt(j).due_date = NULL
                         \/ /\ RowAt(i).due_date # NULL
                            /\ RowAt(i).due_date <= RowAt(j).due_date

\* C3 as amended: the same, with the tasks without a due date coming first
\* in each tier.
C3_HighFirstNullsFirst ==
    last.op = "list_tasks" =>
        \A i, j \in 1..Len(last.res.rows) :
            i < j =>
                /\ RowAt(j).priority = "high" => RowAt(i).priority = "high"
                /\ (RowAt(i).priority = "high") = (RowAt(j).priority = "high")
                      => \/ RowAt(i).due_date = NULL
                         \/ /\ RowAt(j).due_date # NULL
                            /\ RowAt(i).due_date <= RowAt(j).due_date

C3_Witness ==
    /\ last.op = "list_tasks"
    /\ Len(last.res.rows) = 2
    /\ RowAt(1).priority = RowAt(2).priority
    /\ RowAt(1).due_date = NULL
    /\ RowAt(2).due_date # NULL

\* C4: with tag_name among the criteria, filter_tasks returns the tasks that
\* carry a tag of that name and satisfy every other criterion, each once.
C4_TagFilter ==
    (last.op = "filter_tasks" /\ "tag_name" \in DOMAIN last.args) =>
        LET f == last.args
            expected ==
                {r \in tasks :
                    /\ AssocCount(r.id, f.tag_name) > 0
                    /\ \A k \in DOMAIN f \ {"tag_name"} : r[k] = f[k]}
        IN  /\ Returned = expected
            /\ Len(last.res.rows) = Cardinality(expected)

\* The rows filter_tasks selects for the criteria f in the present store.
Selected(f) == FilterRows(tasks, tags, task_tags, f).rows

\* C5: filter_tasks(status=s, priority=p) returns the tasks that both
\* filter_tasks(status=s) and filter_tasks(priority=p) return.
C5_FilterIntersection ==
    (last.op = "filter_tasks" /\ DOMAIN last.args = {"status", "priority"}) =>
        Returned = Selected([status |-> last.args.status])
                     \cap Selected([priority |-> last.args.priority])

C5_Witness ==
    /\ last.op = "filter_tasks"
    /\ DOMAIN last.args = {"status", "priority"}
    /\ Len(last.res.rows) = 1
    /\ Cardinality(Selected([status |-> last.args.status])) = 2

\* ------------------------------------------------------------- SpecConc
\* The same methods as coroutines of one event loop: a coroutine runs until
\* it awaits a statement of the connection, the statements of all
\* coroutines take effect one at a time in the order they were awaited, and
\* all coroutines read and write the one store through self.connection.

\* The statement a call awaits first once it holds the connection.
First(op) ==
    CASE op = "create_task" -> "ct_insert"
      [] op = "create_project" -> "cp_insert"
      [] op = "get_task" -> "gt_row"
      [] op = "delete_task" -> "dt_delete"
      [] op = "delete_project" -> "dp_delete"
      [] op = "add_tag" -> "at_select"
      [] op = "list_tags" -> "lt_select"
      [] OTHER -> "return"

Goto(p, label) == pc' = [pc EXCEPT ![p] = label]

\* The call of coroutine p returns res.
Finish(p, res) ==
    /\ Goto(p, "idle")
    /\ loc' = [loc EXCEPT ![p] = IdleLoc]
    /\ Return(loc[p].op, FALSE, loc[p].args, res)

\* A coroutine calls a method: the method runs to its first await, which is
\* the first statement if self.connection is set (_get_connection), and
\* aiosqlite.connect if it is not, or if the method is initialize.
call(p, op, args) ==
    /\ pc[p] = "idle"
    /\ calls < MaxCalls
    /\ calls' = calls + 1
    /\ loc' = [loc EXCEPT ![p] =
                  [IdleLoc EXCEPT !.op = op, !.args = args,
                                  !.existed = /\ op = "add_tag"
                                              /\ \E r \in tasks :
                                                    r.id = args.id]]
    /\ Goto(p, IF connection /\ op # "initialize" THEN First(op) ELSE "connect")
    /\ UNCHANGED <<db, connection, opened, now, last, streak>>

\* initialize: self.connection = await aiosqlite.connect(...)
connect(p) ==
    /\ pc[p] = "connect"
    /\ connection' = TRUE
    /\ opened' = opened + 1
    /\ Goto(p, "schema")
    /\ UNCHANGED <<db, last, streak, loc, calls, now>>

\* initialize: await self._create_schema(), which creates what is missing.
schema(p) ==
    /\ pc[p] = "schema"
    /\ UNCHANGED <<db, connection, opened, calls, now>>
    /\ IF loc[p].op = "initialize"
       THEN Finish(p, None)
       ELSE Goto(p, First(loc[p].op)) /\ UNCHANGED <<loc, last, streak>>

\* A statement that changes no table: conn.commit().
commit(p, at, next) ==
    /\ pc[p] = at
    /\ Goto(p, next)
    /\ UNCHANGED <<db, connection, opened, last, streak, loc, calls, now>>

ct_insert(p) ==
    LET a == loc[p].args
        id == lastrowid(seq.tasks)
    IN  /\ pc[p] = "ct_insert"
        /\ seq.tasks < MaxTasks
        /\ tasks' = InsertTask(tasks, id, a.title, Default(a.description, ""),
                               Default(a.priority, "medium"),
                               Default(a.status, "pending"),
                               a.project_id, a.due_date)
        /\ seq' = [seq EXCEPT !.tasks = id]
        /\ loc' = [loc EXCEPT ![p].id = id]
        /\ Goto(p, "ct_commit")
        /\ UNCHANGED <<projects, tags, task_tags, connection, opened, last,
                       streak, calls, now>>

ct_commit(p) == commit(p, "ct_commit", "gt_row")

\* The id get_task was called with, by create_task or by the caller.
GetId(p) == IF loc[p].op = "create_task" THEN loc[p].id ELSE loc[p].args.id

gt_row(p) ==
    LET got == SelectTask(tasks, tags, task_tags, GetId(p))
    IN  /\ pc[p] = "gt_row"
        /\ UNCHANGED <<db, connection, opened, calls, now>>
        /\ IF got = None
           THEN Finish(p, None)
           ELSE /\ loc' = [loc EXCEPT ![p].row = got.row]
                /\ Goto(p, "gt_tags")
                /\ UNCHANGED <<last, streak>>

gt_tags(p) ==
    /\ pc[p] = "gt_tags"
    /\ UNCHANGED <<db, connection, opened, calls, now>>
    /\ Finish(p, TaskDict(loc[p].row, SelectTags(tags, task_tags, GetId(p))))

cp_insert(p) ==
    LET a == loc[p].args
        id == lastrowid(seq.projects)
    IN  /\ pc[p] = "cp_insert"
        /\ seq.projects < MaxProjects
        /\ projects' = InsertProject(projects, id, a.name,
                                     Default(a.description, ""))
        /\ seq' = [seq EXCEPT !.projects = id]
        /\ loc' = [loc EXCEPT ![p].id = id]
        /\ Goto(p, "cp_commit")
        /\ UNCHANGED <<tasks, tags, task_tags, connection, opened, last,
                       streak, calls, now>>

cp_commit(p) == commit(p, "cp_commit", "cp_select")

cp_select(p) ==
    LET row == SelectProject(projects, loc[p].id)
    IN  /\ pc[p] = "cp_select"
        /\ UNCHANGED <<db, connection, opened, calls, now>>
        /\ Finish(p, IF row = None THEN EmptyDict ELSE row)

dt_delete(p) ==
    /\ pc[p] = "dt_delete"
    /\ tasks' = DeleteRow(tasks, loc[p].args.id)
    /\ task_tags' = AfterTaskDelete(task_tags, loc[p].args.id)
    /\ Goto(p, "dt_commit")
    /\ UNCHANGED <<projects, tags, seq, connection, opened, last, streak,
                   loc, calls, now>>

dt_commit(p) ==
    /\ pc[p] = "dt_commit"
    /\ UNCHANGED <<db, connection, opened, calls, now>>
    /\ Finish(p, Bool(TRUE))

dp_delete(p) ==
    /\ pc[p] = "dp_delete"
    /\ projects' = DeleteRow(projects, loc[p].args.id)
    /\ Goto(p, "dp_commit")
    /\ UNCHANGED <<tasks, tags, task_tags, seq, connection, opened, last,
                   streak, loc, calls, now>>

dp_commit(p) ==
    /\ pc[p] = "dp_commit"
    /\ UNCHANGED <<db, connection, opened, calls, now>>
    /\ Finish(p, Bool(TRUE))

at_select(p) ==
    LET tag == SelectTagByName(tags, loc[p].args.name)
    IN  /\ pc[p] = "at_select"
        /\ UNCHANGED <<db, connection, opened, last, streak, calls, now>>
        /\ IF tag = {}
           THEN Goto(p, "at_insert") /\ UNCHANGED loc
           ELSE /\ loc' = [loc EXCEPT ![p].id = (CHOOSE g \in tag : TRUE).id]
                /\ Goto(p, "at_assoc")

\* INSERT INTO tags (name) VALUES (?): an IntegrityError, which add_tag
\* answers with False, if a tag of that name is there by now.
at_insert(p) ==
    LET name == loc[p].args.name
        id == lastrowid(seq.tags)
    IN  /\ pc[p] = "at_insert"
        /\ UNCHANGED <<projects, tasks, task_tags, connection, opened, calls, now>>
        /\ IF TagNameIsUnique /\ SelectTagByName(tags, name) # {}
           THEN UNCHANGED <<tags, seq>> /\ Finish(p, Bool(FALSE))
           ELSE /\ tags' = InsertTag(tags, id, name)
                /\ seq' = [seq EXCEPT !.tags = id]
                /\ loc' = [loc EXCEPT ![p].id = id, ![p].created = TRUE]
                /\ Goto(p, "at_commit1")
                /\ UNCHANGED <<last, streak>>

at_commit1(p) == commit(p, "at_commit1", "at_assoc")

at_assoc(p) ==
    /\ pc[p] = "at_assoc"
    /\ UNCHANGED <<projects, tasks, tags, seq, connection, opened, calls, now>>
    /\ IF BadReference(tasks, loc[p].args.id)
       THEN UNCHANGED task_tags /\ Finish(p, Bool(FALSE))
       ELSE /\ task_tags' = InsertOrIgnore(task_tags, loc[p].args.id, loc[p].id)
            /\ Goto(p, "at_commit2")
            /\ UNCHANGED <<loc, last, streak>>

at_commit2(p) ==
    /\ pc[p] = "at_commit2"
    /\ UNCHANGED <<db, connection, opened, calls, now>>
    /\ Finish(p, Bool(TRUE))

lt_select(p) ==
    /\ pc[p] = "lt_select"
    /\ UNCHANGED <<db, connection, opened, calls, now>>
    /\ \E s \in OrderBy(tags, "name") : Finish(p, List(s))

NextConc ==
    \E p \in Procs :
        \/ call(p, "initialize", <<>>)
        \/ call(p, "create_task",
                [title |-> "a", description |-> OMIT, priority |-> OMIT,
                 status |-> OMIT, project_id |-> NULL, due_date |-> NULL])
        \/ call(p, "create_project", [name |-> "p", description |-> OMIT])
        \/ \E id \in Named :
              \/ call(p, "get_task", [id |-> id])
              \/ call(p, "delete_task", [id |-> id])
              \/ call(p, "delete_project", [id |-> id])
        \/ \E id \in TaskIds : call(p, "add_tag", [id |-> id, name |-> "x"])
        \/ call(p, "list_tags", <<>>)
        \/ connect(p) \/ schema(p)
        \/ ct_insert(p) \/ ct_commit(p) \/ gt_row(p) \/ gt_tags(p)
        \/ cp_insert(p) \/ cp_commit(p) \/ cp_select(p)
        \/ dt_delete(p) \/ dt_commit(p) \/ dp_delete(p) \/ dp_commit(p)
        \/ at_select(p) \/ at_insert(p) \/ at_commit1(p) \/ at_assoc(p)
        \/ at_commit2(p)
        \/ lt_select(p)

SpecConc == Init /\ [][NextConc]_vars

\* Coroutine p is between the two halves of an add_tag that created its tag.
TagHalfDone(p) ==
    /\ loc[p].op = "add_tag"
    /\ loc[p].created
    /\ pc[p] \in {"at_commit1", "at_assoc"}
    /\ AssocCount(loc[p].args.id, loc[p].args.name) = 0

\* Coroutine p is between the insert and the end of a create_task.
CreateUnfinished(p) ==
    /\ loc[p].op = "create_task"
    /\ pc[p] \in {"ct_commit", "gt_row", "gt_tags"}

\* C8: no read returns the tag an unfinished add_tag has created while the
\* association it is about to add is missing, and no read returns the task
\* an unfinished create_task has inserted.
C8_NoHalfDoneRead ==
    \A p \in Procs :
        /\ TagHalfDone(p) =>
              ~(/\ last.op = "list_tags"
                /\ \E i \in 1..Len(last.res.rows) :
                      last.res.rows[i].name = loc[p].args.name)
        /\ CreateUnfinished(p) =>
              ~(/\ last.op = "get_task"
                /\ last.res.kind = "task"
                /\ last.res.row.id = loc[p].id)

\* C9: initialize's body runs once in the life of a manager: at most one
\* connection is ever opened.
C9_InitOnce == opened <= 1

\* C10: what create_task and create_project return is the row they
\* inserted, for a task with an empty tag list.
C10_CreateMaterialized ==
    /\ last.op = "create_task" =>
          /\ last.res.kind = "task"
          /\ last.res.row.title = last.args.title
          /\ last.res.row.priority = "medium"
          /\ last.res.row.status = "pending"
          /\ last.res.tags = EmptyBag
    /\ last.op = "create_project" =>
          /\ last.res.kind = "project"
          /\ last.res.row.name = last.args.name

\* ------------------------------------------------------------ SpecStats
\* The analytics over stores of tasks of every status, with and without a
\* due date, on the days 2 and 3.
Todays == {2, 3}
StatusKwargs == {[status |-> "completed"], [status |-> "in_progress"]}

NextStats ==
    \/ \E st \in {OMIT, "completed", "blocked"}, d \in DueDates :
          create_task("a", OMIT, OMIT, st, NULL, d, FALSE)
    \/ \E id \in TaskIds, kw \in StatusKwargs : update_task(id, kw, FALSE)
    \/ \E id \in TaskIds : delete_task(id, FALSE)
    \/ get_task_statistics(FALSE)
    \/ \E today \in Todays : get_overdue_tasks(today, FALSE)

SpecStats == Init /\ [][NextStats]_vars

\* C11: the counts get_task_statistics returns satisfy completed + pending
\* + in_progress = total, and its completion_rate is 0, without a division
\* by zero, when total is 0.
C11_StatisticsConsistent ==
    last.op = "get_task_statistics" =>
        /\ last.res.kind = "stats"
        /\ last.res.total = Cardinality(tasks)
        /\ last.res.completed + last.res.pending + last.res.in_progress
              = last.res.total
        /\ last.res.completion_rate.den # 0
        /\ last.res.total = 0 => last.res.completion_rate.num = 0

C11_Witness ==
    /\ last.op = "get_task_statistics"
    /\ last.res.total = 2
    /\ last.res.completed = 1
    /\ \E r \in tasks : r.status = "blocked"

\* C12: get_overdue_tasks returns, each once and with due dates that do not
\* decrease, the tasks that have a due date before today and a status other
\* than completed; no returned task is due today or has no due date, and a
\* task whose status has been changed to completed is overdue on no day.
C12_Overdue ==
    /\ last.op = "get_overdue_tasks" =>
          /\ Returned = {r \in tasks : /\ r.due_date # NULL
                                       /\ r.due_date < last.args.today
                                       /\ r.status # "completed"}
          /\ Len(last.res.rows) = Cardinality(Returned)
          /\ \A i, j \in 1..Len(last.res.rows) :
                i < j => RowAt(i).due_date <= RowAt(j).due_date
          /\ \A r \in Returned : r.due_date \notin {NULL, last.args.today}
    /\ (/\ last.op = "update_task"
        /\ "status" \in DOMAIN last.args.kwargs
        /\ last.args.kwargs.status = "completed") =>
          \A today \in Todays :
              \A r \in Overdue(tasks, today) : r.id # last.args.id

C12_Witness ==
    /\ last.op = "get_overdue_tasks"
    /\ Len(last.res.rows) = 1
    /\ \E r \in tasks : r.due_date = last.args.today /\ r.status # "completed"

\* ------------------------------------------------------------ SpecFrame
\* What delete_project and update_task change and what they leave alone,
\* over stores of projects, of tasks inside and outside them, and of tags,
\* while the clock runs.
FrameKwargs ==
    {[title |-> "b", due_date |-> 1],
     [status |-> "completed", colour |-> "red"],
     [colour |-> "red"]}

NextFrame ==
    \/ tick
    \/ create_project("p", OMIT, FALSE)
    \/ \E pid \in {NULL} \cup Named :
          create_task("a", OMIT, OMIT, OMIT, pid, NULL, FALSE)
    \/ \E id \in Named : add_tag(id, "x", FALSE)
    \/ \E id \in Named : get_task(id, FALSE)
    \/ \E id \in Named, kw \in FrameKwargs : update_task(id, kw, FALSE)
    \/ \E id \in Named : delete_project(id, FALSE)

SpecFrame == Init /\ [][NextFrame]_vars

\* The step is a call of op: every step that is not a tick of the clock
\* is a call, which last' records.
Called(op) == now' = now /\ last'.op = op

\* C13: delete_project(p) removes the row of p from projects and nothing
\* else: the tasks, tags and associations are as before, and get_task on
\* a task of p returns it with project_id = p, its other fields and its
\* tags as they were.
C13_DeleteProjectFrame ==
    [][Called("delete_project") =>
          LET p == last'.args.id
          IN  /\ projects' = {r \in projects : r.id # p}
              /\ tasks' = tasks
              /\ tags' = tags
              /\ task_tags' = task_tags
              /\ \A r \in tasks :
                    r.project_id = p =>
                       /\ SelectTask(tasks', tags', task_tags', r.id)
                             = TaskDict(r, SelectTags(tags, task_tags, r.id))
                       /\ SelectTask(tasks', tags', task_tags', r.id)
                             .row.project_id = p]_vars

C13_Witness ==
    /\ last.op = "delete_project"
    /\ seq.projects >= last.args.id
    /\ MissingProject(last.args.id)
    /\ \E r \in tasks : /\ r.project_id = last.args.id
                         /\ SelectTags(tags, task_tags, r.id) # EmptyBag
    /\ \E r \in tasks : r.project_id = NULL

TaskFields == {"title", "description", "status", "priority", "due_date"}

\* C14: update_task on a task that exists gives each supplied field among
\* title, description, status, priority, due_date its supplied value and
\* updated_at the time of the call, and leaves the other fields of the
\* task, its tags, every other task and every project, tag and
\* association as they were; with none of the five fields supplied the
\* store is left as it was. It returns the task as it then is, with tags.
C14_UpdateTaskFrame ==
    [][(Called("update_task") /\ ~MissingTask(last'.args.id)) =>
          LET id == last'.args.id
              kw == last'.args.kwargs
              supplied == DOMAIN kw \cap TaskFields
              old == CHOOSE r \in tasks : r.id = id
              new == CHOOSE r \in tasks' : r.id = id
          IN  /\ Cardinality({r \in tasks' : r.id = id}) = 1
              /\ \A f \in DOMAIN old :
                    new[f] = IF f \in supplied THEN kw[f]
                             ELSE IF f = "updated_at" /\ supplied # {} THEN now
                             ELSE old[f]
              /\ DOMAIN new = DOMAIN old
              /\ {r \in tasks' : r.id # id} = {r \in tasks : r.id # id}
              /\ projects' = projects
              /\ tags' = tags
              /\ task_tags' = task_tags
              /\ supplied = {} => db' = db
              /\ last'.res = TaskDict(new, SelectTags(tags, task_tags, id))]_vars

C14_Witness ==
    /\ last.op = "update_task"
    /\ last.args.kwargs = [status |-> "completed", colour |-> "red"]
    /\ last.res.kind = "task"
    /\ last.res.row.status = "completed"
    /\ last.res.row.title = "b"
    /\ last.res.row.updated_at > last.res.row.created_at
    /\ last.res.tags # EmptyBag
    /\ Cardinality(tasks) = 2
    /\ projects # {}

\* ---------------------------------------------------------- SpecDropped
\* Updates and filters called with keys the methods do not know, beside
\* the same calls without them.
DroppedTaskKwargs ==
    {[status |-> "completed"], [status |-> "completed", colour |-> "red"],
     [colour |-> "red"], <<>>}
DroppedProjectKwargs ==
    {[name |-> "q"], [name |-> "q", colour |-> "red"], [colour |-> "red"], <<>>}
DroppedFilters ==
    {<<>>, [colour |-> "red"],
     [status |-> "pending"], [status |-> "pending", colour |-> "red"],
     [tag_name |-> "x", status |-> "pending"],
     [tag_name |-> "x", status |-> "pending", colour |-> "red"]}

NextDropped ==
    \/ tick
    \/ create_project("p", OMIT, FALSE)
    \/ \E st \in {OMIT, "completed"} :
          create_task("a", OMIT, OMIT, st, NULL, NULL, FALSE)
    \/ \E id \in TaskIds : add_tag(id, "x", FALSE)
    \/ \E id \in Named, kw \in DroppedTaskKwargs : update_task(id, kw, FALSE)
    \/ \E id \in Named, kw \in DroppedProjectKwargs :
          update_project(id, kw, FALSE)
    \/ \E fl \in DroppedFilters : filter_tasks(fl, FALSE)

SpecDropped == Init /\ [][NextDropped]_vars

ProjectFields == {"name", "description"}
FilterKeys == {"status", "priority", "project_id", "tag_name"}

\* The keyword arguments of a call without the keys outside known.
Without(kwargs, known) == [k \in DOMAIN kwargs \cap known |-> kwargs[k]]

\* C15: update_task, update_project and filter_tasks called with keys they
\* do not know return what the call without those keys returns and leave
\* the store that call leaves; filter_tasks without criteria returns every
\* task.
C15_UnrecognizedDropped ==
    [][/\ Called("update_task") =>
             LET id == last'.args.id
                 kw == Without(last'.args.kwargs, TaskFields)
                 T == IF DOMAIN kw = {} THEN tasks
                      ELSE UpdateRows(tasks, id, kw)
             IN  /\ tasks' = T
                 /\ <<projects, tags, task_tags, seq>>'
                       = <<projects, tags, task_tags, seq>>
                 /\ last'.res = SelectTask(T, tags, task_tags, id)
       /\ Called("update_project") =>
             LET id == last'.args.id
                 kw == Without(last'.args.kwargs, ProjectFields)
                 P == IF DOMAIN kw = {} THEN projects
                      ELSE UpdateRows(projects, id, kw)
             IN  /\ projects' = P
                 /\ <<tasks, tags, task_tags, seq>>'
                       = <<tasks, tags, task_tags, seq>>
                 /\ last'.res = SelectProject(P, id)
       /\ Called("filter_tasks") =>
             LET q == FilterRows(tasks, tags, task_tags,
                                 Without(last'.args, FilterKeys))
                 rows == {last'.res.rows[i].row : i \in 1..Len(last'.res.rows)}
             IN  /\ db' = db
                 /\ rows = IF q.ok THEN q.rows ELSE {}
                 /\ DOMAIN last'.args = {} => rows = tasks]_vars

\* ------------------------------------- more properties of SpecTags, SpecConc
\* C16: remove_tag(t, x) returns False and leaves the store as it was when
\* no tag is named x; otherwise it leaves no association of t with x and
\* leaves the tags, the tasks and every other association as they were.
\* No step of any operation takes a tag out of the store.
C16_RemoveTagFrame ==
    [][/\ Called("remove_tag") =>
             LET t == last'.args.id
                 ids == {g.id : g \in SelectTagByName(tags, last'.args.name)}
             IN  IF ids = {}
                 THEN last'.res = Bool(FALSE) /\ db' = db
                 ELSE /\ <<projects, tasks, tags, seq>>'
                            = <<projects, tasks, tags, seq>>
                      /\ DOMAIN task_tags' = DOMAIN task_tags \ ({t} \X ids)
                      /\ \A q \in DOMAIN task_tags' :
                            task_tags'[q] = task_tags[q]
       /\ tags \subseteq tags']_vars

C16_Witness ==
    /\ last.op = "remove_tag"
    /\ last.res = Bool(TRUE)
    /\ AssocCount(last.args.id, last.args.name) = 0
    /\ \E q \in DOMAIN task_tags :
          /\ q[1] # last.args.id
          /\ q[2] \in {g.id : g \in SelectTagByName(tags, last.args.name)}
    /\ Cardinality(tags) = 2

\* How many rows of TT join task t to a tag of G named n.
AssocCountIn(G, TT, t, n) ==
    LET RECURSIVE Sum(_)
        Sum(S) == IF S = {} THEN 0
                  ELSE LET i == CHOOSE j \in S : TRUE
                       IN  CopiesIn(<<t, i>>, TT) + Sum(S \ {i})
    IN  Sum({g.id : g \in SelectTagByName(G, n)})

\* C17: an add_tag called on an existing task, whatever other add_tag runs
\* beside it, returns True, and when it returns there is one tag of the
\* name, associated once with the task.
C17_GetOrCreate ==
    [][\A p \in Procs :
          (/\ loc[p].op = "add_tag"
           /\ loc[p].existed
           /\ pc[p] # "idle"
           /\ pc'[p] = "idle") =>
              /\ last'.res = Bool(TRUE)
              /\ Cardinality(SelectTagByName(tags', loc[p].args.name)) = 1
              /\ AssocCountIn(tags', task_tags', loc[p].args.id,
                              loc[p].args.name) = 1]_vars

\* C18: every association joins a task and a tag that are in the store.
C18_ReferentialIntegrity ==
    \A q \in DOMAIN task_tags :
        /\ \E r \in tasks : r.id = q[1]
        /\ \E g \in tags : g.id = q[2]

====
